---------------------------- MODULE Spec2Model ----------------------------
(***************************************************************************)
(* free-churro-scheduler: a task scheduler on top of PostgreSQL.           *)
(*                                                                         *)
(* The model covers the persistence layer (database.rs), the supervisor    *)
(* (supervisor.rs, supervisor/workers.rs, supervisor/tasks.rs), the worker *)
(* (worker.rs, worker/watchdog.rs) and the task-creation HTTP endpoint.    *)
(*                                                                         *)
(* Specifications:                                                         *)
(*   Spec        the whole system: HTTP endpoints, supervisor, workers,    *)
(*               with the failures of the endpoint and of the supervisor   *)
(*   SpecGc      supervisor and one worker on a database that holds a      *)
(*               backlog, with time running up to the heartbeat timeout    *)
(*   SpecDb      the SQL statements of database.rs called in any order     *)
(*               with any arguments on a table of schema-valid rows        *)
(*   SpecRoster  SupervisedWorkers called in any order with any arguments  *)
(*   SpecRosterGc  the roster under the calls of its gc test               *)
(*   SpecQueue   PendingTasks called in any order with any arguments       *)
(*   SpecDbWorkers  the statements on table workers called in any order    *)
(*   SpecLive    SpecGc with failing heartbeats, under fair scheduling     *)
(*   SpecLiveTwo SpecLive with two workers and without the HTTP endpoints  *)
(***************************************************************************)
EXTENDS Integers, Sequences, FiniteSets, TLC

(***************************************************************************)
(* Bounds of the model.                                                    *)
(***************************************************************************)
NumTasks == 2
NumWorkers == 2
MaxRequests == 1
MaxTime == 1
MaxGcTime == 3
MaxRosterTime == 4
MaxPushes == 3
MaxQueueTime == 2
MaxWorkerTime == 2
MaxDbTime == 1
MaxChan == 1

(***************************************************************************)
(* Program constants, in seconds.                                          *)
(***************************************************************************)
HEARTBEAT_TIMEOUT == 3
HEARTBEAT_DURATION == 1

TaskIds == 1..NumTasks
WorkerIds == 1..NumWorkers

\* Option<T>: None is the empty sequence, Some(x) the one-element sequence
None == << >>
Some(x) == <<x>>

\* a table (or map) is a function from the keys it holds
Has(T, id) == id \in DOMAIN T
Get(T, id) == IF Has(T, id) THEN Some(T[id]) ELSE None
Put(T, id, v) == [k \in DOMAIN T \cup {id} |-> IF k = id THEN v ELSE T[k]]
Del(T, id) == [k \in DOMAIN T \ {id} |-> T[k]]
Empty == [k \in {} |-> 0]

TaskDef == {"Foo", "Bar", "Baz"}
\* the definitions POST /tasks is called with: Bar can succeed and fail
RequestDefs == {"Bar"}
TaskStatus == {"pending", "dispatched", "running", "succeeded", "failed", "interrupted"}
WorkerStatus == {"busy", "idle"}

VARIABLES
    now,            \* the clock read by Utc::now() and tokio's Instant, in seconds
    tasks,          \* table tasks: id -> row
    dbWorkers,      \* table workers: id -> last_heard_at
    supChan,        \* notifications queued for the listener of channel supervisor
    wChan,          \* per worker: notifications queued on channel worker:{id}
    http,           \* the POST /tasks request being served
    supPc,          \* where the supervisor is
    tx,             \* the supervisor's open dispatch transaction
    workers,        \* SupervisedWorkers::workers: id -> last_heard_at
    idling_workers, \* SupervisedWorkers::idling_workers
    queue,          \* PendingTasks::tasks, in the order the heap yields them
    is_active,      \* PendingTasks::is_active
    maintDue,       \* Supervisor::maintenance has a tick to deliver
    wPc,            \* per worker: where its main loop is
    wStatus,        \* per worker: AtomicWorkerStatus
    wTask,          \* per worker: the task being processed
    wd,             \* per worker: where its watchdog is
    ret,            \* SpecDb, SpecRoster: the last call and what it returned
    \* history, read by the properties only
    nPushed,        \* per task: pushes from the backlog and from TaskCreated
    nAttempts,      \* per task: dispatch transactions ended (commit, rollback)
    committed,      \* per task and worker: committed pending -> dispatched
    published,      \* per task and worker: TaskDispatched made visible
    nBegun,         \* per task: begin_task calls that updated the row
    nCompleted,     \* per task: complete_task calls that updated the row
    inserted,       \* tasks whose row became visible
    announced,      \* tasks whose TaskCreated was emitted
    createDone,     \* tasks whose POST returned while the supervisor listened
    atScan,         \* tasks the backlog scan returned
    deleted,        \* tasks deleted
    outstanding     \* per worker: dispatches not yet answered by WorkerIdle

dbVars == <<tasks, dbWorkers>>
chanVars == <<supChan, wChan>>
supVars == <<supPc, tx, workers, idling_workers, queue, is_active, maintDue>>
workerVars == <<wPc, wStatus, wTask, wd>>
histVars == <<nPushed, nAttempts, committed, published, nBegun, nCompleted,
              inserted, announced, createDone, atScan, deleted, outstanding>>
vars == <<now, dbVars, chanVars, http, supVars, workerVars, ret, histVars>>

---------------------------------------------------------------------------
(***************************************************************************)
(* Persistence layer: each statement as a function of the table.           *)
(***************************************************************************)

\* create_worker, with on conflict (id) do nothing
create_worker_do_nothing(W, id, last_heard_at) ==
    IF Has(W, id) THEN W ELSE Put(W, id, last_heard_at)

\* insert into workers ... on conflict (id) do update set last_heard_at = $2
create_worker(W, id, last_heard_at) ==
    Put(W, id, last_heard_at)

\* update workers set last_heard_at = $1 where id = $2
update_worker(W, id, last_heard_at) ==
    IF Has(W, id) THEN Put(W, id, last_heard_at) ELSE W

\* create_task, storing the epoch as updated_at
create_task_epoch_updated_at(T, id, def, created_at, scheduled_at) ==
    Put(T, id, [def |-> def,
                worker_id |-> None,
                status |-> "pending",
                created_at |-> created_at,
                updated_at |-> 0,
                scheduled_at |-> scheduled_at])

\* insert into tasks (...) values ($1, $2, null, 'pending', $3, $3, $4)
create_task(T, id, def, created_at, scheduled_at) ==
    Put(T, id, [def |-> def,
                worker_id |-> None,
                status |-> "pending",
                created_at |-> created_at,
                updated_at |-> created_at,
                scheduled_at |-> scheduled_at])

\* dispatch_task, without the status predicate: where id = $3
dispatch_task_where_any(T, id) ==
    Has(T, id)

\* dispatch_task: where id = $3 and status = 'pending'
dispatch_task_where(T, id) ==
    Has(T, id) /\ T[id].status = "pending"

\* dispatch_task, without worker_id = $1
dispatch_task_keep_worker(T, task_id, worker_id, updated_at) ==
    IF dispatch_task_where(T, task_id)
    THEN [T EXCEPT ![task_id] = [@ EXCEPT !.status = "dispatched",
                                          !.updated_at = updated_at]]
    ELSE T

\* dispatch_task: set worker_id = $1, status = 'dispatched', updated_at = $2
dispatch_task(T, task_id, worker_id, updated_at) ==
    IF dispatch_task_where(T, task_id)
    THEN [T EXCEPT ![task_id] = [@ EXCEPT !.worker_id = Some(worker_id),
                                          !.status = "dispatched",
                                          !.updated_at = updated_at]]
    ELSE T

\* dispatch_task: returning id; Ok(row.is_some())
dispatch_task_result(T, task_id) ==
    dispatch_task_where(T, task_id)

\* begin_task, without the status predicate: where id = $2
begin_task_where_any(T, id) ==
    Has(T, id)

\* begin_task: where id = $2 and status = 'dispatched'
begin_task_where(T, id) ==
    Has(T, id) /\ T[id].status = "dispatched"

\* begin_task: set status = 'running', updated_at = $1
begin_task(T, id, updated_at) ==
    IF begin_task_where(T, id)
    THEN [T EXCEPT ![id] = [@ EXCEPT !.status = "running",
                                     !.updated_at = updated_at]]
    ELSE T

\* begin_task: returning def; fetch_one fails with RowNotFound (None) on no row
begin_task_result(T, id) ==
    IF begin_task_where(T, id) THEN Some(T[id].def) ELSE None

\* complete_task, without the status predicate: where id = $3
complete_task_where_any(T, id) ==
    Has(T, id)

\* complete_task: where id = $3 and status in ('running', 'interrupted')
complete_task_where(T, id) ==
    Has(T, id) /\ T[id].status \in {"running", "interrupted"}

\* complete_task, with the status bound to 'succeeded' whatever the outcome
complete_task_status_succeeded(succeeded) ==
    "succeeded"

\* complete_task, recording a failed run as interrupted
complete_task_status_interrupted(succeeded) ==
    IF succeeded THEN "succeeded" ELSE "interrupted"

\* complete_task: if succeeded { TaskStatus::Succeeded } else { TaskStatus::Failed }
complete_task_status(succeeded) ==
    IF succeeded THEN "succeeded" ELSE "failed"

\* complete_task: set status = $1::task_status, updated_at = $2
complete_task(T, id, succeeded, updated_at) ==
    IF complete_task_where(T, id)
    THEN [T EXCEPT ![id] = [@ EXCEPT !.status = complete_task_status(succeeded),
                                     !.updated_at = updated_at]]
    ELSE T

\* delete from tasks where id = $1
delete_task(T, id) ==
    Del(T, id)

\* select id, scheduled_at from tasks where status = 'pending'
get_backlog(T) ==
    {id \in DOMAIN T : T[id].status = "pending"}


---------------------------------------------------------------------------
(***************************************************************************)
(* Notifications and their transport (pg_notify / PgListener).             *)
(***************************************************************************)

WorkerHeartbeat(id, status) ==
    [ty |-> "worker-heartbeat", id |-> id, status |-> status]

WorkerIdle(id) ==
    [ty |-> "worker-idle", id |-> id]

TaskCreated(id, scheduled_at) ==
    [ty |-> "task-created", id |-> id, scheduled_at |-> scheduled_at]

TaskDispatched(id) ==
    [ty |-> "task-dispatched", id |-> id]

\* SupervisorListener::connect has run and the process lives
SupListening ==
    supPc \notin {"init", "crashed"}

\* WorkerListener::connect has run and the process lives
WorkerListening(id) ==
    wPc[id] \notin {"off", "dead"}

\* select pg_notify('supervisor', $1): queued for the sessions listening now
SupervisorNotification_send(chan, notif) ==
    IF SupListening THEN Append(chan, notif) ELSE chan

\* WorkerNotification::send, bound to the channel of the first worker
WorkerNotification_send_first_channel(chans, notif, id) ==
    IF WorkerListening(1) THEN [chans EXCEPT ![1] = Append(@, notif)] ELSE chans

\* select pg_notify('worker:{id}', $2): queued for the sessions listening now
WorkerNotification_send(chans, notif, id) ==
    IF WorkerListening(id) THEN [chans EXCEPT ![id] = Append(@, notif)] ELSE chans

\* the executor the supervisor hands to WorkerNotification::send: &mut *tx
TaskDispatched_executor_pool == "pool"

TaskDispatched_executor == "tx"

---------------------------------------------------------------------------
(***************************************************************************)
(* Worker roster (SupervisedWorkers).                                      *)
(***************************************************************************)

\* add: self.workers.insert(id, SupervisedWorker { last_heard_at: now })
add_workers(W, id, status, now_) ==
    Put(W, id, now_)

\* add, with the status read on every heartbeat
add_idling_always(W, I, id, status) ==
    IF status = "idle" THEN I \cup {id} ELSE I

\* add: the status counts only when insert() returned None
add_idling(W, I, id, status) ==
    IF ~Has(W, id) /\ status = "idle" THEN I \cup {id} ELSE I

\* mark_as_idle: self.idling_workers.insert(id)
mark_as_idle(I, id) ==
    I \cup {id}

\* choose_idling: the ids .choose(&mut rand::thread_rng()) may return
choose_idling(I) ==
    I

\* choose_idling, leaving the chosen worker in the idle-set
choose_idling_keep(I, id) ==
    I

\* choose_idling: self.idling_workers.remove(&id)
choose_idling_remove(I, id) ==
    I \ {id}

\* gc, measuring the distance in either direction
last_heard_in_abs(now_, last_heard_at) ==
    IF now_ - last_heard_at < 0 THEN last_heard_at - now_ ELSE now_ - last_heard_at

\* gc: (now - worker.last_heard_at).to_std().unwrap_or_default()
last_heard_in(now_, last_heard_at) ==
    IF now_ - last_heard_at < 0 THEN 0 ELSE now_ - last_heard_at

\* a gc that takes one missed heartbeat for death
dead_worker_ids_one_beat(W, now_) ==
    {id \in DOMAIN W : last_heard_in(now_, W[id]) >= HEARTBEAT_DURATION}

\* gc: dead_worker_ids
dead_worker_ids(W, now_) ==
    {id \in DOMAIN W : last_heard_in(now_, W[id]) >= HEARTBEAT_TIMEOUT}

\* gc: self.workers.remove(&id) for each dead worker
gc_workers(W, now_) ==
    [id \in DOMAIN W \ dead_worker_ids(W, now_) |-> W[id]]

\* gc: self.idling_workers.remove(&id) for each dead worker
gc_idling(W, I, now_) ==
    I \ dead_worker_ids(W, now_)

---------------------------------------------------------------------------
(***************************************************************************)
(* Pending-tasks queue (PendingTasks).  The heap is kept as the sequence   *)
(* in which BinaryHeap::pop yields it: greatest element first.             *)
(***************************************************************************)

\* Option<Instant> ordering: None < Some(_)
OptionLess(a, b) ==
    IF a = None THEN b # None ELSE (b # None /\ a[1] < b[1])

\* Ord for PendingTask, breaking ties towards the smaller id
PendingTask_greater_small_id(self, other) ==
    \/ OptionLess(self.at, other.at)
    \/ (self.at = other.at /\ self.id < other.id)

\* Ord for PendingTask: other.deadline().cmp(&self.deadline())
\*                        .then_with(|| self.id.cmp(&other.id))
PendingTask_greater(self, other) ==
    \/ OptionLess(self.at, other.at)
    \/ (self.at = other.at /\ self.id > other.id)

\* push, with a zero delay dropped like a negative one
push_at_positive_only(scheduled_at, now_) ==
    IF scheduled_at = None THEN None
    ELSE IF scheduled_at[1] - now_ <= 0 THEN None
    ELSE Some(now + (scheduled_at[1] - now_))

\* push: scheduled_at.and_then(|at| (at - now).to_std().ok()).map(sleep)
\* the Sleep's deadline is Instant::now() + (at - now)
push_at(scheduled_at, now_) ==
    IF scheduled_at = None THEN None
    ELSE IF scheduled_at[1] - now_ < 0 THEN None
    ELSE Some(now + (scheduled_at[1] - now_))

\* BinaryHeap::push
heap_push(q, task) ==
    LET before == {i \in 1..Len(q) : ~PendingTask_greater(task, q[i])}
        k == Cardinality(before)
    IN  SubSeq(q, 1, k) \o <<task>> \o SubSeq(q, k + 1, Len(q))

\* push: self.tasks.push(PendingTask { at, id })
push(q, id, scheduled_at, now_) ==
    heap_push(q, [at |-> push_at(scheduled_at, now_), id |-> id])

\* PendingTasks::default(), with the queue active from the start
PendingTasks_default_is_active_true == TRUE

\* #[derive(Default)]: is_active: bool starts false
PendingTasks_default_is_active == FALSE

\* pause, leaving the queue as active as it was
pause_ignored(active) ==
    active

\* pause: self.is_active = false
pause(active) ==
    FALSE

\* poll, without the is_active test
poll_ready_unpaused(q, active) ==
    /\ q # << >>
    /\ IF Head(q).at = None THEN TRUE ELSE Head(q).at[1] <= now

\* poll: Poll::Ready when active and the head has no Sleep or its Sleep elapsed
poll_ready(q, active) ==
    /\ active
    /\ q # << >>
    /\ IF Head(q).at = None THEN TRUE ELSE Head(q).at[1] <= now

\* poll, leaving the head in the heap
heap_pop_peek(q) ==
    q

\* poll: if poll.is_ready() { self.tasks.pop(); }
heap_pop(q) ==
    Tail(q)

\* TaskDef::run: only Bar (an HTTP request) can return Err
run_outcomes(def) ==
    IF def = "Bar" THEN BOOLEAN ELSE {TRUE}

\* AtomicWorkerStatus::store, losing the value
AtomicWorkerStatus_store_lost(S, w, status) ==
    S

\* AtomicWorkerStatus::store: self.busy.store(val, Ordering::SeqCst)
AtomicWorkerStatus_store(S, w, status) ==
    [S EXCEPT ![w] = status]

\* WorkerListener::next, handing out the newest notification
listener_next_newest(chan) ==
    Len(chan)

\* WorkerListener::next: the position in the session's queue of the
\* notification try_recv_json returns, the oldest
listener_next(chan) ==
    1

\* Worker::start, never seeing the watchdog's signal
watchdog_died_never(WD, w) ==
    FALSE

\* Worker::start: _ = &mut self.watchdog => WakeupReason::WatchdogDied;
\* the receiver is ready once the watchdog sent WorkerWatchdogDied
watchdog_died(WD, w) ==
    WD[w] = "died"

\* process_task, reporting every run as a success
process_task_succeeded_always(run_ok) ==
    TRUE

\* process_task: Ok(_) => complete_task(.., true, ..),
\*               Err(err) => complete_task(.., false, ..)
process_task_succeeded(run_ok) ==
    run_ok

---------------------------------------------------------------------------
(***************************************************************************)
(* The system: initial state.                                              *)
(***************************************************************************)

HttpIdle == [pc |-> "idle", id |-> 0, scheduled_at |-> None]

ZeroPerTask == [t \in TaskIds |-> 0]
ZeroPerPair == [p \in TaskIds \X WorkerIds |-> 0]

InitDb ==
    /\ tasks = Empty
    /\ dbWorkers = Empty

InitChannels ==
    /\ supChan = << >>
    /\ wChan = [w \in WorkerIds |-> << >>]

\* Supervisor before new(): SupervisedWorkers::default(), PendingTasks::default()
InitSupervisor ==
    /\ supPc = "init"
    /\ tx = None
    /\ workers = Empty
    /\ idling_workers = {}
    /\ queue = << >>
    /\ is_active = PendingTasks_default_is_active
    /\ maintDue = TRUE

\* workers before Worker::new(): AtomicWorkerStatus::default() is idle
InitWorkers ==
    /\ wPc = [w \in WorkerIds |-> "off"]
    /\ wStatus = [w \in WorkerIds |-> "idle"]
    /\ wTask = [w \in WorkerIds |-> None]
    /\ wd = [w \in WorkerIds |-> "off"]

InitHistory ==
    /\ nPushed = ZeroPerTask
    /\ nAttempts = ZeroPerTask
    /\ committed = ZeroPerPair
    /\ published = ZeroPerPair
    /\ nBegun = ZeroPerTask
    /\ nCompleted = ZeroPerTask
    /\ inserted = {}
    /\ announced = {}
    /\ createDone = {}
    /\ atScan = {}
    /\ deleted = {}
    /\ outstanding = [w \in WorkerIds |-> 0]

NoCall == [op |-> "none"]

Init ==
    /\ now = 0
    /\ InitDb
    /\ InitChannels
    /\ http = HttpIdle
    /\ InitSupervisor
    /\ InitWorkers
    /\ ret = NoCall
    /\ InitHistory

---------------------------------------------------------------------------
(***************************************************************************)
(* Time.                                                                   *)
(***************************************************************************)

\* one second passes: the maintenance interval and the heartbeat intervals tick
Tick(max) ==
    /\ now < max
    /\ now' = now + 1
    /\ maintDue' = TRUE
    /\ wd' = [w \in WorkerIds |-> IF wd[w] = "sleeping" THEN "ready" ELSE wd[w]]
    /\ UNCHANGED <<dbVars, chanVars, http, supPc, tx, workers, idling_workers,
                   queue, is_active, wPc, wStatus, wTask, ret, histVars>>

---------------------------------------------------------------------------
(***************************************************************************)
(* HTTP endpoints, served by every running worker process.                 *)
(***************************************************************************)

HttpServing ==
    \E w \in WorkerIds : wPc[w] \notin {"off", "dead"}

\* the row is locked by the supervisor's uncommitted update
Locked(id) ==
    /\ supPc = "tx"
    /\ tx[1].affected
    /\ tx[1].task_id = id

\* create_task::endpoint: db.begin(); Database::create_task(&db, ...)
\* the statement runs on the pool, outside tx: it commits on its own
HttpCreateTask ==
    \E id \in TaskIds \ inserted, def \in RequestDefs,
       scheduled_at \in {None, Some(now + 1)} :
        /\ HttpServing
        /\ Cardinality(inserted) < MaxRequests
        /\ \A other \in TaskIds \ inserted : id <= other
        /\ http.pc = "idle"
        /\ tasks' = create_task(tasks, id, def, now, scheduled_at)
        /\ http' = [pc |-> "created", id |-> id, scheduled_at |-> scheduled_at]
        /\ inserted' = inserted \cup {id}
        /\ UNCHANGED <<now, dbWorkers, chanVars, supVars, workerVars, ret,
                       nPushed, nAttempts, committed, published, nBegun,
                       nCompleted, announced, createDone, atScan, deleted,
                       outstanding>>

\* create_task::endpoint: SupervisorNotification::TaskCreated{..}.send(&db)
\* also on the pool: delivered at once
HttpSend ==
    /\ http.pc = "created"
    /\ supChan' = SupervisorNotification_send(
                      supChan, TaskCreated(http.id, http.scheduled_at))
    /\ http' = [http EXCEPT !.pc = "sent"]
    /\ announced' = announced \cup {http.id}
    /\ UNCHANGED <<now, dbVars, wChan, supVars, workerVars, ret,
                   nPushed, nAttempts, committed, published, nBegun,
                   nCompleted, inserted, createDone, atScan, deleted,
                   outstanding>>

\* create_task::endpoint: tx.commit() of the transaction nothing ran in
HttpCommit ==
    /\ http.pc = "sent"
    /\ http' = HttpIdle
    /\ createDone' = IF SupListening THEN createDone \cup {http.id} ELSE createDone
    /\ UNCHANGED <<now, dbVars, chanVars, supVars, workerVars, ret,
                   nPushed, nAttempts, committed, published, nBegun,
                   nCompleted, inserted, announced, atScan, deleted,
                   outstanding>>

\* create_task::endpoint: the send fails and its .unwrap() panics;
\* tx is dropped, which rolls back nothing
HttpFail ==
    /\ http.pc = "created"
    /\ http' = HttpIdle
    /\ UNCHANGED <<now, dbVars, chanVars, supVars, workerVars, ret, histVars>>

\* delete_task::endpoint
HttpDeleteTask ==
    \E id \in DOMAIN tasks :
        /\ HttpServing
        /\ ~Locked(id)
        /\ tasks' = delete_task(tasks, id)
        /\ deleted' = deleted \cup {id}
        /\ UNCHANGED <<now, dbWorkers, chanVars, http, supVars, workerVars, ret,
                       nPushed, nAttempts, committed, published, nBegun,
                       nCompleted, inserted, announced, createDone, atScan,
                       outstanding>>

---------------------------------------------------------------------------
(***************************************************************************)
(* Supervisor.                                                             *)
(***************************************************************************)

Inc(f, k) == [f EXCEPT ![k] = @ + 1]
Dec(f, k) == [f EXCEPT ![k] = IF @ > 0 THEN @ - 1 ELSE 0]

\* Supervisor::new: SupervisorListener::connect, then Database::connect
SupConnect ==
    /\ supPc = "init"
    /\ supPc' = "listening"
    /\ UNCHANGED <<now, dbVars, chanVars, http, tx, workers, idling_workers,
                   queue, is_active, maintDue, workerVars, ret, histVars>>

RECURSIVE push_all(_, _, _, _)
\* process_backlog: for (id, scheduled_at) in tasks { self.tasks.push(..) }
push_all(q, T, ids, now_) ==
    IF ids = {} THEN q
    ELSE LET id == CHOOSE i \in ids : TRUE
         IN  push_all(push(q, id, T[id].scheduled_at, now_), T, ids \ {id}, now_)

\* Supervisor::start: process_backlog
SupProcessBacklog ==
    /\ supPc = "listening"
    /\ supPc' = "loop"
    /\ queue' = push_all(queue, tasks, get_backlog(tasks), now)
    /\ atScan' = get_backlog(tasks)
    /\ nPushed' = [t \in TaskIds |->
                      IF t \in get_backlog(tasks) THEN nPushed[t] + 1 ELSE nPushed[t]]
    /\ UNCHANGED <<now, dbVars, chanVars, http, tx, workers, idling_workers,
                   is_active, maintDue, workerVars, ret,
                   nAttempts, committed, published, nBegun, nCompleted,
                   inserted, announced, createDone, deleted, outstanding>>

\* WakeupReason::GotNotification: WorkerHeartbeat
SupGotHeartbeat ==
    /\ supPc = "loop"
    /\ supChan # << >>
    /\ Head(supChan).ty = "worker-heartbeat"
    /\ LET notif == Head(supChan) IN
        /\ workers' = add_workers(workers, notif.id, notif.status, now)
        /\ idling_workers' =
               add_idling(workers, idling_workers, notif.id, notif.status)
    /\ is_active' = TRUE
    /\ supChan' = Tail(supChan)
    /\ UNCHANGED <<now, dbVars, wChan, http, supPc, tx, queue, maintDue,
                   workerVars, ret, histVars>>

\* WakeupReason::GotNotification: WorkerIdle
SupGotWorkerIdle ==
    /\ supPc = "loop"
    /\ supChan # << >>
    /\ Head(supChan).ty = "worker-idle"
    /\ idling_workers' = mark_as_idle(idling_workers, Head(supChan).id)
    /\ is_active' = TRUE
    /\ supChan' = Tail(supChan)
    /\ outstanding' = Dec(outstanding, Head(supChan).id)
    /\ UNCHANGED <<now, dbVars, wChan, http, supPc, tx, workers, queue,
                   maintDue, workerVars, ret,
                   nPushed, nAttempts, committed, published, nBegun,
                   nCompleted, inserted, announced, createDone, atScan,
                   deleted>>

\* WakeupReason::GotNotification: TaskCreated
SupGotTaskCreated ==
    /\ supPc = "loop"
    /\ supChan # << >>
    /\ Head(supChan).ty = "task-created"
    /\ queue' = push(queue, Head(supChan).id, Head(supChan).scheduled_at, now)
    /\ nPushed' = Inc(nPushed, Head(supChan).id)
    /\ supChan' = Tail(supChan)
    /\ UNCHANGED <<now, dbVars, wChan, http, supPc, tx, workers,
                   idling_workers, is_active, maintDue, workerVars, ret,
                   nAttempts, committed, published, nBegun, nCompleted,
                   inserted, announced, createDone, atScan, deleted,
                   outstanding>>

\* WakeupReason::GotTask with no idling worker: push back and pause
SupGotTaskNoWorker ==
    /\ supPc = "loop"
    /\ poll_ready(queue, is_active)
    /\ choose_idling(idling_workers) = {}
    /\ queue' = push(heap_pop(queue), Head(queue).id, None, now)
    /\ is_active' = pause(is_active)
    /\ UNCHANGED <<now, dbVars, chanVars, http, supPc, tx, workers,
                   idling_workers, maintDue, workerVars, ret, histVars>>

\* WakeupReason::GotTask: choose_idling, self.database.begin(),
\* Database::dispatch_task(&mut *tx, ..) and, if task_got_dispatched,
\* WorkerNotification::TaskDispatched.send(&mut *tx, ..): what runs in tx
\* stays invisible to the other sessions until the commit
SupGotTask ==
    /\ supPc = "loop"
    /\ poll_ready(queue, is_active)
    /\ \E worker_id \in choose_idling(idling_workers) :
        LET task_id == Head(queue).id
            affected == dispatch_task_result(tasks, task_id)
            in_tx == TaskDispatched_executor = "tx"
        IN
        /\ idling_workers' = choose_idling_remove(idling_workers, worker_id)
        /\ tx' = Some([task_id |-> task_id,
                       worker_id |-> worker_id,
                       updated_at |-> now,
                       affected |-> affected,
                       notif_in_tx |-> affected /\ in_tx])
        /\ IF affected /\ ~in_tx
           THEN /\ wChan' = WorkerNotification_send(
                                wChan, TaskDispatched(task_id), worker_id)
                /\ published' = Inc(published, <<task_id, worker_id>>)
           ELSE UNCHANGED <<wChan, published>>
    /\ queue' = heap_pop(queue)
    /\ supPc' = "tx"
    /\ UNCHANGED <<now, dbVars, supChan, http, workers, is_active, maintDue,
                   workerVars, ret,
                   nPushed, nAttempts, committed, nBegun, nCompleted,
                   inserted, announced, createDone, atScan, deleted,
                   outstanding>>

\* tx.commit(): the update and the notification sent in tx become visible
SupCommit ==
    /\ supPc = "tx"
    /\ tx[1].affected
    /\ LET t == tx[1].task_id
           w == tx[1].worker_id
       IN
        /\ tasks' = dispatch_task(tasks, t, w, tx[1].updated_at)
        /\ committed' = Inc(committed, <<t, w>>)
        /\ IF tx[1].notif_in_tx
           THEN /\ wChan' = WorkerNotification_send(wChan, TaskDispatched(t), w)
                /\ published' = Inc(published, <<t, w>>)
           ELSE UNCHANGED <<wChan, published>>
        /\ nAttempts' = Inc(nAttempts, t)
        /\ outstanding' = Inc(outstanding, w)
    /\ tx' = None
    /\ supPc' = "loop"
    /\ UNCHANGED <<now, dbWorkers, supChan, http, workers, idling_workers,
                   queue, is_active, maintDue, workerVars, ret,
                   nPushed, nBegun, nCompleted, inserted, announced,
                   createDone, atScan, deleted>>

\* else: tx.rollback()
SupRollback ==
    /\ supPc = "tx"
    /\ ~tx[1].affected
    /\ nAttempts' = Inc(nAttempts, tx[1].task_id)
    /\ tx' = None
    /\ supPc' = "loop"
    /\ UNCHANGED <<now, dbVars, chanVars, http, workers, idling_workers,
                   queue, is_active, maintDue, workerVars, ret,
                   nPushed, committed, published, nBegun, nCompleted,
                   inserted, announced, createDone, atScan, deleted,
                   outstanding>>

\* a statement of the dispatch transaction fails: start() returns the error,
\* tx is dropped and rolls back with what was sent in it
SupCrash ==
    /\ supPc = "tx"
    /\ supPc' = "crashed"
    /\ UNCHANGED <<now, dbVars, chanVars, http, tx, workers, idling_workers,
                   queue, is_active, maintDue, workerVars, ret, histVars>>

\* WakeupReason::MaintenanceTime: self.workers.gc(Utc::now())
SupMaintenance ==
    /\ supPc = "loop"
    /\ maintDue
    /\ workers' = gc_workers(workers, now)
    /\ idling_workers' = gc_idling(workers, idling_workers, now)
    /\ maintDue' = FALSE
    /\ UNCHANGED <<now, dbVars, chanVars, http, supPc, tx, queue, is_active,
                   workerVars, ret, histVars>>

---------------------------------------------------------------------------
(***************************************************************************)
(* Worker and its watchdog.                                                *)
(***************************************************************************)

\* Worker::new: WorkerListener::connect, Database::connect,
\* WorkerWatchdog::spawn (create_worker, then the heartbeat loop).
\* The workers are interchangeable: they are launched in the order of their ids.
WorkerStart(w) ==
    /\ wPc[w] = "off"
    /\ \A v \in WorkerIds : v < w => wPc[v] # "off"
    /\ wPc' = [wPc EXCEPT ![w] = "wait"]
    /\ dbWorkers' = create_worker(dbWorkers, w, now)
    /\ wd' = [wd EXCEPT ![w] = "first"]
    /\ UNCHANGED <<now, tasks, chanVars, http, supVars, wStatus, wTask, ret,
                   histVars>>

\* WorkerWatchdog::heartbeat: update_worker, then WorkerHeartbeat{id, status};
\* the first interval.tick() returns at once, the later ones a second apart
Heartbeat(w) ==
    /\ wd[w] \in {"first", "ready"}
    /\ Len(supChan) < MaxChan
    /\ dbWorkers' = update_worker(dbWorkers, w, now)
    /\ supChan' = SupervisorNotification_send(
                      supChan, WorkerHeartbeat(w, wStatus[w]))
    /\ wd' = [wd EXCEPT ![w] = IF @ = "first" THEN "ready" ELSE "sleeping"]
    /\ UNCHANGED <<now, tasks, wChan, http, supVars, wPc, wStatus, wTask, ret,
                   histVars>>

\* Worker::start: GotNotification(TaskDispatched{id}); process_task:
\* self.status.store(WorkerStatus::Busy), Database::begin_task(..).await?
\* an Err leaves start() and ends the process
WorkerBegin(w) ==
    /\ wPc[w] = "wait"
    /\ wChan[w] # << >>
    /\ LET i == listener_next(wChan[w])
           id == wChan[w][i].id
           def == begin_task_result(tasks, id)
       IN
        /\ ~Locked(id)
        /\ tasks' = begin_task(tasks, id, now)
        /\ wStatus' = AtomicWorkerStatus_store(wStatus, w, "busy")
        /\ IF def # None
           THEN /\ wTask' = [wTask EXCEPT ![w] = Some([id |-> id, def |-> def[1]])]
                /\ wPc' = [wPc EXCEPT ![w] = "run"]
                /\ nBegun' = Inc(nBegun, id)
                /\ UNCHANGED wd
           ELSE /\ wPc' = [wPc EXCEPT ![w] = "dead"]
                /\ wd' = [wd EXCEPT ![w] = "stopped"]
                /\ UNCHANGED <<wTask, nBegun>>
        /\ wChan' = [wChan EXCEPT ![w] =
                         SubSeq(@, 1, i - 1) \o SubSeq(@, i + 1, Len(@))]
    /\ UNCHANGED <<now, dbWorkers, supChan, http, supVars, ret,
                   nPushed, nAttempts, committed, published, nCompleted,
                   inserted, announced, createDone, atScan, deleted,
                   outstanding>>

\* process_task: task.run(..), Database::complete_task(.., true | false, ..),
\* self.status.store(WorkerStatus::Idle)
WorkerComplete(w) ==
    /\ wPc[w] = "run"
    /\ LET id == wTask[w][1].id IN
       \E run_ok \in run_outcomes(wTask[w][1].def) :
        /\ tasks' = complete_task(tasks, id, process_task_succeeded(run_ok), now)
        /\ nCompleted' = IF complete_task_where(tasks, id)
                         THEN Inc(nCompleted, id) ELSE nCompleted
        /\ wTask' = [wTask EXCEPT ![w] =
                         Some([id |-> id, def |-> @[1].def, run_ok |-> run_ok])]
    /\ wStatus' = AtomicWorkerStatus_store(wStatus, w, "idle")
    /\ wPc' = [wPc EXCEPT ![w] = "notify"]
    /\ UNCHANGED <<now, dbWorkers, chanVars, http, supVars, wd,
                   ret, nPushed, nAttempts, committed, published, nBegun,
                   inserted, announced, createDone, atScan, deleted,
                   outstanding>>

\* process_task: SupervisorNotification::WorkerIdle{id}.send(&self.database)
WorkerSendIdle(w) ==
    /\ wPc[w] = "notify"
    /\ supChan' = SupervisorNotification_send(supChan, WorkerIdle(w))
    /\ wTask' = [wTask EXCEPT ![w] = None]
    /\ wPc' = [wPc EXCEPT ![w] = "wait"]
    /\ UNCHANGED <<now, dbVars, wChan, http, supVars, wStatus, wd, ret,
                   histVars>>

\* WorkerWatchdog::spawn: heartbeat() returned Err, either from
\* update_worker or, with the row already updated, from the send:
\* _ = tx.send(WorkerWatchdogDied); break
HeartbeatFail(w) ==
    /\ wd[w] \in {"first", "ready"}
    /\ \E updated \in BOOLEAN :
           dbWorkers' = IF updated THEN update_worker(dbWorkers, w, now)
                                   ELSE dbWorkers
    /\ wd' = [wd EXCEPT ![w] = "died"]
    /\ UNCHANGED <<now, tasks, chanVars, http, supVars, wPc, wStatus, wTask,
                   ret, histVars>>

\* Worker::start: WakeupReason::WatchdogDied => return Err(..)
WorkerWatchdogDied(w) ==
    /\ wPc[w] = "wait"
    /\ watchdog_died(wd, w)
    /\ wPc' = [wPc EXCEPT ![w] = "dead"]
    /\ UNCHANGED <<now, dbVars, chanVars, http, supVars, wStatus, wTask, wd,
                   ret, histVars>>

---------------------------------------------------------------------------
Next ==
    \/ Tick(MaxTime)
    \/ HttpCreateTask
    \/ HttpSend
    \/ HttpCommit
    \/ HttpFail
    \/ HttpDeleteTask
    \/ SupConnect
    \/ SupProcessBacklog
    \/ SupGotHeartbeat
    \/ SupGotWorkerIdle
    \/ SupGotTaskCreated
    \/ SupGotTaskNoWorker
    \/ SupGotTask
    \/ SupCommit
    \/ SupRollback
    \/ SupCrash
    \/ SupMaintenance
    \/ \E w \in WorkerIds : WorkerStart(w)
    \/ \E w \in WorkerIds : Heartbeat(w)
    \/ \E w \in WorkerIds : WorkerBegin(w)
    \/ \E w \in WorkerIds : WorkerComplete(w)
    \/ \E w \in WorkerIds : WorkerSendIdle(w)

Spec == Init /\ [][Next]_vars

\* SpecGc: the supervisor and one worker start on a database that already
\* holds pending tasks, created while an earlier deployment ran; time runs
\* up to the heartbeat timeout
BacklogRow == [def |-> "Bar", worker_id |-> None, status |-> "pending",
               created_at |-> 0, updated_at |-> 0, scheduled_at |-> None]

InitBacklog ==
    /\ now = 0
    /\ tasks = [id \in TaskIds |-> BacklogRow]
    /\ dbWorkers = Empty
    /\ InitChannels
    /\ http = HttpIdle
    /\ InitSupervisor
    /\ InitWorkers
    /\ ret = NoCall
    /\ InitHistory

NextGc ==
    \/ Tick(MaxGcTime)
    \/ HttpDeleteTask
    \/ SupConnect
    \/ SupProcessBacklog
    \/ SupGotHeartbeat
    \/ SupGotWorkerIdle
    \/ SupGotTaskNoWorker
    \/ SupGotTask
    \/ SupCommit
    \/ SupRollback
    \/ SupMaintenance
    \/ WorkerStart(1)
    \/ \E w \in WorkerIds : Heartbeat(w)
    \/ \E w \in WorkerIds : WorkerBegin(w)
    \/ \E w \in WorkerIds : WorkerComplete(w)
    \/ \E w \in WorkerIds : WorkerSendIdle(w)

SpecGc == InitBacklog /\ [][NextGc]_vars

\* a second passes, for ever: the intervals keep ticking; the clock value
\* stops counting at max, so that later timestamps all read max
TickOn(max) ==
    /\ now' = IF now < max THEN now + 1 ELSE now
    /\ maintDue' = TRUE
    /\ wd' = [w \in WorkerIds |-> IF wd[w] = "sleeping" THEN "ready" ELSE wd[w]]
    /\ UNCHANGED <<dbVars, chanVars, http, supPc, tx, workers, idling_workers,
                   queue, is_active, wPc, wStatus, wTask, ret, histVars>>

\* SpecLive: SpecGc with heartbeats that may fail, under fair scheduling:
\* every process and spawned task keeps running, so a step that stays
\* possible is taken (select! picks among its ready branches at random and
\* starves none); nothing obliges a heartbeat to fail or a task to be
\* deleted
NextLive ==
    \/ TickOn(MaxGcTime)
    \/ HttpDeleteTask
    \/ SupConnect
    \/ SupProcessBacklog
    \/ SupGotHeartbeat
    \/ SupGotWorkerIdle
    \/ SupGotTaskNoWorker
    \/ SupGotTask
    \/ SupCommit
    \/ SupRollback
    \/ SupMaintenance
    \/ WorkerStart(1)
    \/ \E w \in WorkerIds : Heartbeat(w)
    \/ \E w \in WorkerIds : HeartbeatFail(w)
    \/ \E w \in WorkerIds : WorkerBegin(w)
    \/ \E w \in WorkerIds : WorkerComplete(w)
    \/ \E w \in WorkerIds : WorkerSendIdle(w)
    \/ \E w \in WorkerIds : WorkerWatchdogDied(w)

FairLive ==
    /\ WF_vars(TickOn(MaxGcTime))
    /\ WF_vars(SupConnect)
    /\ WF_vars(SupProcessBacklog)
    /\ WF_vars(SupGotHeartbeat)
    /\ WF_vars(SupGotWorkerIdle)
    /\ WF_vars(SupGotTaskNoWorker)
    /\ WF_vars(SupGotTask)
    /\ WF_vars(SupCommit)
    /\ WF_vars(SupRollback)
    /\ WF_vars(SupMaintenance)
    /\ WF_vars(WorkerStart(1))
    /\ \A w \in WorkerIds :
           /\ WF_vars(Heartbeat(w))
           /\ WF_vars(WorkerBegin(w))
           /\ WF_vars(WorkerComplete(w))
           /\ WF_vars(WorkerSendIdle(w))
           /\ WF_vars(WorkerWatchdogDied(w))

SpecLive == InitBacklog /\ [][NextLive]_vars /\ FairLive

\* SpecLiveTwo: as SpecLive, with both workers and without the HTTP API:
\* no task is deleted, so no dispatch is rolled back
NextLiveTwo ==
    \/ TickOn(MaxTime)
    \/ SupConnect
    \/ SupProcessBacklog
    \/ SupGotHeartbeat
    \/ SupGotWorkerIdle
    \/ SupGotTaskNoWorker
    \/ SupGotTask
    \/ SupCommit
    \/ SupMaintenance
    \/ \E w \in WorkerIds : WorkerStart(w)
    \/ \E w \in WorkerIds : Heartbeat(w)
    \/ HeartbeatFail(1)
    \/ \E w \in WorkerIds : WorkerBegin(w)
    \/ \E w \in WorkerIds : WorkerComplete(w)
    \/ \E w \in WorkerIds : WorkerSendIdle(w)
    \/ \E w \in WorkerIds : WorkerWatchdogDied(w)

FairLiveTwo ==
    /\ WF_vars(TickOn(MaxTime))
    /\ WF_vars(SupConnect)
    /\ WF_vars(SupProcessBacklog)
    /\ WF_vars(SupGotHeartbeat)
    /\ WF_vars(SupGotWorkerIdle)
    /\ WF_vars(SupGotTaskNoWorker)
    /\ WF_vars(SupGotTask)
    /\ WF_vars(SupCommit)
    /\ WF_vars(SupMaintenance)
    /\ \A w \in WorkerIds :
           /\ WF_vars(WorkerStart(w))
           /\ WF_vars(Heartbeat(w))
           /\ WF_vars(WorkerBegin(w))
           /\ WF_vars(WorkerComplete(w))
           /\ WF_vars(WorkerSendIdle(w))
           /\ WF_vars(WorkerWatchdogDied(w))

SpecLiveTwo == InitBacklog /\ [][NextLiveTwo]_vars /\ FairLiveTwo

---------------------------------------------------------------------------
(***************************************************************************)
(* SpecDb: the statements of database.rs called in any order, by any       *)
(* caller, with any arguments.  The table starts with any rows the schema  *)
(* admits in which worker_id is null exactly for the pending rows.         *)
(***************************************************************************)

SchemaRows ==
    {r \in [def : TaskDef,
            worker_id : {None} \cup {Some(w) : w \in WorkerIds},
            status : TaskStatus,
            created_at : {0},
            updated_at : {0},
            scheduled_at : {None}] :
        (r.worker_id = None) <=> (r.status = "pending")}

DbInit ==
    /\ now = 0
    /\ \E ids \in SUBSET TaskIds : tasks \in [ids -> SchemaRows]
    /\ dbWorkers = Empty
    /\ InitChannels
    /\ http = HttpIdle
    /\ InitSupervisor
    /\ InitWorkers
    /\ ret = NoCall
    /\ InitHistory

DbFrame ==
    UNCHANGED <<dbWorkers, chanVars, http, supVars, workerVars, histVars>>

DbTick ==
    /\ now < MaxDbTime
    /\ now' = now + 1
    /\ UNCHANGED <<tasks, ret>>
    /\ DbFrame

\* Uuid::new_v4(): an id no row holds
DbCreateTask ==
    \E id \in TaskIds, def \in TaskDef, scheduled_at \in {None} :
        /\ ~Has(tasks, id)
        /\ tasks' = create_task(tasks, id, def, now, scheduled_at)
        /\ ret' = [op |-> "create_task", id |-> id, at |-> now,
                   before |-> Get(tasks, id)]
        /\ UNCHANGED now
        /\ DbFrame

DbDispatchTask ==
    \E task_id \in TaskIds, worker_id \in WorkerIds :
        /\ tasks' = dispatch_task(tasks, task_id, worker_id, now)
        /\ ret' = [op |-> "dispatch_task", id |-> task_id, at |-> now,
                   worker_id |-> worker_id,
                   before |-> Get(tasks, task_id),
                   result |-> dispatch_task_result(tasks, task_id)]
        /\ UNCHANGED now
        /\ DbFrame

DbBeginTask ==
    \E id \in TaskIds :
        /\ tasks' = begin_task(tasks, id, now)
        /\ ret' = [op |-> "begin_task", id |-> id, at |-> now,
                   before |-> Get(tasks, id),
                   result |-> begin_task_result(tasks, id)]
        /\ UNCHANGED now
        /\ DbFrame

DbCompleteTask ==
    \E id \in TaskIds, succeeded \in BOOLEAN :
        /\ tasks' = complete_task(tasks, id, succeeded, now)
        /\ ret' = [op |-> "complete_task", id |-> id, at |-> now,
                   succeeded |-> succeeded,
                   before |-> Get(tasks, id),
                   result |-> "Ok"]
        /\ UNCHANGED now
        /\ DbFrame

DbDeleteTask ==
    \E id \in TaskIds :
        /\ Has(tasks, id)
        /\ tasks' = delete_task(tasks, id)
        /\ ret' = [op |-> "delete_task", id |-> id, at |-> now,
                   before |-> Get(tasks, id)]
        /\ UNCHANGED now
        /\ DbFrame

DbNext ==
    \/ DbTick
    \/ DbCreateTask
    \/ DbDispatchTask
    \/ DbBeginTask
    \/ DbCompleteTask
    \/ DbDeleteTask

SpecDb == DbInit /\ [][DbNext]_vars

\* the row the last call addressed, before and after it
RowBefore == ret.before
RowAfter == Get(tasks, ret.id)

\* the edges of the status graph
StatusEdge(from, to) ==
    \/ from = "pending" /\ to = "dispatched"
    \/ from = "dispatched" /\ to = "running"
    \/ from \in {"running", "interrupted"} /\ to \in {"succeeded", "failed"}

C3_DispatchTask ==
    ret.op = "dispatch_task" =>
        IF RowBefore # None /\ RowBefore[1].status = "pending"
        THEN /\ ret.result = TRUE
             /\ RowAfter # None
             /\ RowAfter[1].status = "dispatched"
             /\ RowAfter[1].worker_id = Some(ret.worker_id)
        ELSE /\ ret.result = FALSE
             /\ RowAfter = RowBefore

\* a dispatch_task for another worker, later, met a dispatched row
C3_Witness ==
    /\ ret.op = "dispatch_task"
    /\ RowBefore # None
    /\ RowBefore[1].status = "dispatched"
    /\ RowBefore[1].worker_id # Some(ret.worker_id)
    /\ ret.at > RowBefore[1].updated_at
    /\ ret.result = FALSE
    /\ RowAfter = RowBefore

\* C4: complete_task returns Ok always; on a running or interrupted row it
\* stores succeeded or failed as its argument says, on any other row, or
\* none, the row is as before
C4_CompleteTask ==
    ret.op = "complete_task" =>
        /\ ret.result = "Ok"
        /\ IF RowBefore # None /\ RowBefore[1].status \in {"running", "interrupted"}
           THEN /\ RowAfter # None
                /\ RowAfter[1].status = IF ret.succeeded THEN "succeeded"
                                                         ELSE "failed"
           ELSE RowAfter = RowBefore

\* a complete_task(false) met an interrupted row and made it failed
C4_Witness ==
    /\ ret.op = "complete_task"
    /\ RowBefore # None
    /\ RowBefore[1].status = "interrupted"
    /\ ~ret.succeeded
    /\ RowAfter # None
    /\ RowAfter[1].status = "failed"

\* C5: begin_task on a dispatched row stores running and returns the row's
\* def; on any other row, or none, it fails with RowNotFound and the row is
\* as before
C5_BeginTask ==
    ret.op = "begin_task" =>
        IF RowBefore # None /\ RowBefore[1].status = "dispatched"
        THEN /\ ret.result = Some(RowBefore[1].def)
             /\ RowAfter # None
             /\ RowAfter[1].status = "running"
             /\ RowAfter[1].def = RowBefore[1].def
        ELSE /\ ret.result = None
             /\ RowAfter = RowBefore

\* a begin_task met a running row: it failed and the row stayed
C5_Witness ==
    /\ ret.op = "begin_task"
    /\ RowBefore # None
    /\ RowBefore[1].status = "running"
    /\ ret.result = None
    /\ RowAfter = RowBefore

---------------------------------------------------------------------------
(***************************************************************************)
(* SpecRoster: SupervisedWorkers called in any order with any arguments,   *)
(* starting from SupervisedWorkers::default().                             *)
(***************************************************************************)

RosterTimes == 0..MaxRosterTime

RosterFrame ==
    UNCHANGED <<now, dbVars, chanVars, http, supPc, tx, queue, is_active,
                maintDue, workerVars, histVars>>

RosterAdd ==
    \E id \in WorkerIds, status \in WorkerStatus, at \in RosterTimes :
        /\ workers' = add_workers(workers, id, status, at)
        /\ idling_workers' = add_idling(workers, idling_workers, id, status)
        /\ ret' = [op |-> "add", id |-> id, status |-> status, at |-> at,
                   workers |-> workers, idling_workers |-> idling_workers]
        /\ RosterFrame

RosterMarkAsIdle ==
    \E id \in WorkerIds :
        /\ idling_workers' = mark_as_idle(idling_workers, id)
        /\ UNCHANGED workers
        /\ ret' = [op |-> "mark_as_idle", id |-> id,
                   workers |-> workers, idling_workers |-> idling_workers]
        /\ RosterFrame

\* the results of the choose_idling calls made in a row up to the last call,
\* and the idle-set the first of them met
ChooseStreak == IF ret.op = "choose_idling" THEN ret.streak ELSE << >>
ChooseStart == IF ret.op = "choose_idling" THEN ret.start ELSE idling_workers

ChooseRecord(result) ==
    [op |-> "choose_idling", result |-> result,
     workers |-> workers, idling_workers |-> idling_workers,
     start |-> ChooseStart,
     streak |-> IF Len(ChooseStreak) <= NumWorkers
                THEN Append(ChooseStreak, result) ELSE ChooseStreak]

RosterChooseIdling ==
    /\ IF choose_idling(idling_workers) = {}
       THEN /\ UNCHANGED idling_workers
            /\ ret' = ChooseRecord(None)
       ELSE \E id \in choose_idling(idling_workers) :
            /\ idling_workers' = choose_idling_remove(idling_workers, id)
            /\ ret' = ChooseRecord(Some(id))
    /\ UNCHANGED workers
    /\ RosterFrame

RosterGc ==
    \E at \in RosterTimes :
        /\ workers' = gc_workers(workers, at)
        /\ idling_workers' = gc_idling(workers, idling_workers, at)
        /\ ret' = [op |-> "gc", at |-> at,
                   workers |-> workers, idling_workers |-> idling_workers]
        /\ RosterFrame

RosterNext ==
    \/ RosterAdd
    \/ RosterMarkAsIdle
    \/ RosterChooseIdling
    \/ RosterGc

SpecRoster == Init /\ [][RosterNext]_vars

\* C10: add(id, status, now) stores now as the id's last_heard_at and
\* touches no other entry; for an id the roster held it leaves the idle-set
\* as it was whatever the status; for a new id it inserts the id into the
\* idle-set when the status is idle and leaves the idle-set alone when busy
C10_AddReadsStatusOnce ==
    ret.op = "add" =>
        /\ DOMAIN workers = DOMAIN ret.workers \cup {ret.id}
        /\ workers[ret.id] = ret.at
        /\ \A id \in DOMAIN ret.workers \ {ret.id} : workers[id] = ret.workers[id]
        /\ IF Has(ret.workers, ret.id)
           THEN idling_workers = ret.idling_workers
           ELSE IF ret.status = "idle"
                THEN idling_workers = ret.idling_workers \cup {ret.id}
                ELSE idling_workers = ret.idling_workers

\* an add with status idle for a known worker that was not idle
C10_Witness ==
    /\ ret.op = "add"
    /\ ret.status = "idle"
    /\ Has(ret.workers, ret.id)
    /\ ret.id \notin ret.idling_workers
    /\ ret.id \notin idling_workers
    /\ workers[ret.id] = ret.at
    /\ ret.at # ret.workers[ret.id]

---------------------------------------------------------------------------
(***************************************************************************)
(* Properties of the whole system.                                         *)
(***************************************************************************)

\* the workers a dispatch of task t was committed to, was published to
Dispatches(t) == {w \in WorkerIds : committed[<<t, w>>] > 0}
Publications(t) == {w \in WorkerIds : published[<<t, w>>] > 0}

\* C2: a task the supervisor pushed twice (from the backlog and from its
\* TaskCreated) is dispatched by at most one commit and announced by at most
\* one TaskDispatched, and by exactly one of each once both attempts ended
\* and nobody deleted the task; the row keeps the worker of that commit, and
\* the task is begun and completed at most once
C2_ObservedTwiceDispatchedOnce ==
    \A t \in TaskIds :
        nPushed[t] >= 2 =>
            /\ \A w \in WorkerIds : committed[<<t, w>>] <= 1
            /\ \A w \in WorkerIds : published[<<t, w>>] <= 1
            /\ Cardinality(Dispatches(t)) <= 1
            /\ Cardinality(Publications(t)) <= 1
            /\ (nAttempts[t] >= 2 /\ t \notin deleted) =>
                   /\ Cardinality(Dispatches(t)) = 1
                   /\ Cardinality(Publications(t)) = 1
            /\ \A w \in Dispatches(t) :
                   Has(tasks, t) => /\ tasks[t].worker_id = Some(w)
                                    /\ tasks[t].status # "pending"
            /\ nBegun[t] <= 1
            /\ nCompleted[t] <= 1

\* a task of the backlog, pushed again by its TaskCreated, went through both
\* dispatch attempts and was completed once
C2_Witness ==
    \E t \in TaskIds :
        /\ t \in atScan
        /\ nPushed[t] = 2
        /\ nAttempts[t] = 2
        /\ Cardinality(Dispatches(t)) = 1
        /\ nBegun[t] = 1
        /\ nCompleted[t] = 1
        /\ Has(tasks, t)
        /\ tasks[t].status \in {"succeeded", "failed"}

\* C6: TaskDispatched{t} has been made visible on worker:{w} exactly as
\* often as a transition of t from pending to dispatched with worker_id = w
\* has committed; after the supervisor failed between its update and the
\* commit, the row, if it still exists, is pending with no worker and no
\* TaskDispatched{t} was made visible
C6_DispatchHandshakeAtomic ==
    /\ \A t \in TaskIds, w \in WorkerIds :
           published[<<t, w>>] = committed[<<t, w>>]
    /\ (supPc = "crashed" /\ tx[1].affected) =>
           /\ Publications(tx[1].task_id) = {}
           /\ Has(tasks, tx[1].task_id) =>
                  /\ tasks[tx[1].task_id].status = "pending"
                  /\ tasks[tx[1].task_id].worker_id = None

\* the supervisor failed after an update that matched the row
C6_Witness ==
    /\ supPc = "crashed"
    /\ tx[1].affected
    /\ Has(tasks, tx[1].task_id)
    /\ tasks[tx[1].task_id].status = "pending"
    /\ wChan[tx[1].worker_id] = << >>

\* C7: once no POST /tasks is being served, the rows inserted and the
\* TaskCreated notifications emitted are for the same tasks
C7_RowAndNotificationTogether ==
    http.pc = "idle" => inserted = announced

\* a TaskCreated{t} waits in the supervisor's channel
TaskCreatedQueued(t) ==
    \E i \in 1..Len(supChan) :
        supChan[i].ty = "task-created" /\ supChan[i].id = t

\* C8: once the supervisor runs its loop and has taken the TaskCreated
\* notifications of a task out of its channel, the task is in the queue or
\* was, if the backlog scan met it pending or its POST /tasks returned after
\* the supervisor subscribed
C8_NoCreationUnseen ==
    \A t \in TaskIds :
        (/\ supPc \in {"loop", "tx"}
         /\ ~TaskCreatedQueued(t)
         /\ t \in atScan \cup createDone) => nPushed[t] >= 1

\* the same for the tasks nobody deleted
NoCreationUnseenUnlessDeleted ==
    \A t \in TaskIds \ deleted :
        (/\ supPc \in {"loop", "tx"}
         /\ ~TaskCreatedQueued(t)
         /\ t \in atScan \cup createDone) => nPushed[t] >= 1

\* C9: a worker has at most one dispatch not yet answered by its WorkerIdle:
\* between the commit of a dispatch to it and the receipt of its WorkerIdle
\* the supervisor commits no other dispatch to it
C9_OneDispatchPerWorker ==
    \A w \in WorkerIds : outstanding[w] <= 1

\* C11: mark_as_idle(id) puts a worker the roster knows into the idle-set;
\* for an id the roster does not know, or one that is idle already, roster
\* and idle-set stay as they were
C11_MarkAsIdleKnownOnly ==
    ret.op = "mark_as_idle" =>
        /\ workers = ret.workers
        /\ IF Has(ret.workers, ret.id)
           THEN idling_workers = ret.idling_workers \cup {ret.id}
           ELSE idling_workers = ret.idling_workers

\* C12: choose_idling returns None exactly on an empty idle-set; otherwise
\* it returns a member of the idle-set and removes that member only, and the
\* roster is untouched; calls made in a row return different workers, all
\* from the idle-set the first call met, and None only once every one of
\* them was returned
C12_ChooseIdling ==
    ret.op = "choose_idling" =>
        /\ workers = ret.workers
        /\ (ret.result = None) <=> (ret.idling_workers = {})
        /\ ret.result = None => idling_workers = ret.idling_workers
        /\ ret.result # None =>
               /\ ret.result[1] \in ret.idling_workers
               /\ idling_workers = ret.idling_workers \ {ret.result[1]}
        /\ \A i, j \in 1..Len(ret.streak) :
               (i < j /\ ret.streak[i] # None) => ret.streak[j] # ret.streak[i]
        /\ \A i \in 1..Len(ret.streak) :
               IF ret.streak[i] # None
               THEN ret.streak[i][1] \in ret.start
               ELSE \A w \in ret.start :
                        \E j \in 1..(i - 1) : ret.streak[j] = Some(w)

\* every worker was idle; as many calls as workers returned them all and the
\* next call returned None
C12_Witness ==
    /\ ret.op = "choose_idling"
    /\ ret.start = WorkerIds
    /\ Len(ret.streak) = NumWorkers + 1
    /\ ret.result = None
    /\ \A w \in WorkerIds : \E i \in 1..NumWorkers : ret.streak[i] = Some(w)

C19_WorkerIdNullIffPending ==
    \A t \in DOMAIN tasks :
        /\ (tasks[t].worker_id = None) <=> (tasks[t].status = "pending")
        /\ tasks[t].worker_id # None =>
               committed[<<t, tasks[t].worker_id[1]>>] >= 1

\* a created task was dispatched to a worker, begun and completed, and its
\* row carries that worker
C19_Witness ==
    \E t \in DOMAIN tasks :
        /\ t \in inserted
        /\ tasks[t].status \in {"succeeded", "failed"}
        /\ tasks[t].worker_id # None
        /\ nCompleted[t] = 1

Published(chan, chan2, notif) ==
    /\ Len(chan2) = Len(chan) + 1
    /\ SubSeq(chan2, 1, Len(chan)) = chan
    /\ chan2[Len(chan2)] = notif

\* the row reached a terminal status, or is gone
Terminal(T, t) ==
    Has(T, t) => T[t].status \in {"succeeded", "failed"}

StepOrder(w) ==
    /\ (wStatus[w] = "idle" /\ wStatus'[w] = "busy") =>
           /\ wPc[w] = "wait"
           /\ wChan[w] # << >>
           /\ tasks' = begin_task(tasks, Head(wChan[w]).id, now)
    /\ (wPc[w] # "run" /\ wPc'[w] = "run") =>
           /\ wStatus'[w] = "busy"
           /\ wTask'[w] # None
           /\ Has(tasks', wTask'[w][1].id)
           /\ tasks'[wTask'[w][1].id].status = "running"
    /\ (wPc[w] = "run" /\ tasks' # tasks /\ wPc'[w] # "run") =>
           /\ wStatus[w] = "busy"
           /\ \E succeeded \in BOOLEAN :
                  tasks' = complete_task(tasks, wTask[w][1].id, succeeded, now)
    /\ (wStatus[w] = "busy" /\ wStatus'[w] = "idle") =>
           /\ wPc[w] = "run"
           /\ wPc'[w] = "notify"
           /\ Terminal(tasks', wTask[w][1].id)
    /\ Published(supChan, supChan', WorkerIdle(w)) =>
           /\ wPc[w] = "notify"
           /\ wStatus[w] = "idle"
           /\ Terminal(tasks, wTask[w][1].id)
    /\ (wPc[w] = "run" /\ Len(supChan') > Len(supChan)
                       /\ supChan'[Len(supChan')].ty = "worker-heartbeat"
                       /\ supChan'[Len(supChan')].id = w) =>
           supChan'[Len(supChan')] = WorkerHeartbeat(w, "busy")

\* C22: a worker stores busy only as it takes a TaskDispatched and calls
\* begin_task for it; the runner starts only with the status busy and the
\* row running; complete_task comes after that, the idle store after
\* complete_task, and WorkerIdle after the idle store, when the row has a
\* terminal status (or was deleted); a heartbeat published while the
\* runner runs reports busy
C22_StepOrder ==
    [][\A w \in WorkerIds : StepOrder(w)]_vars

\* a worker ran a task to its terminal status and its WorkerIdle is the
\* newest notification on the supervisor's channel
C22_Witness ==
    \E w \in WorkerIds, t \in DOMAIN tasks :
        /\ supChan # << >>
        /\ supChan[Len(supChan)] = WorkerIdle(w)
        /\ wPc[w] = "wait"
        /\ wStatus[w] = "idle"
        /\ nBegun[t] = 1
        /\ nCompleted[t] = 1
        /\ tasks[t].worker_id = Some(w)
        /\ tasks[t].status \in {"succeeded", "failed"}

\* rows the worker has begun and not completed
Processing(T, w) ==
    {t \in DOMAIN T : T[t].worker_id = Some(w) /\ T[t].status = "running"}

OneAtATime(w) ==
    /\ nBegun' # nBegun =>
           (wPc[w] # "wait" => (wPc'[w] = wPc[w] /\ wTask'[w] = wTask[w]))
    /\ (wPc[w] = "wait" /\ wPc'[w] = "run") =>
           /\ Processing(tasks, w) = {}
           /\ wTask'[w][1].id = Head(wChan[w]).id
           /\ wChan'[w] = Tail(wChan[w])
    /\ wPc[w] \in {"run", "notify"} =>
           /\ wPc'[w] \in {"run", "notify"} => wTask'[w][1].id = wTask[w][1].id
           /\ \/ wChan'[w] = wChan[w]
              \/ \E t \in TaskIds :
                     Published(wChan[w], wChan'[w], TaskDispatched(t))

\* C23: a worker calls begin_task only while it processes no task: no row
\* it began is still running; the task it begins is the oldest
\* TaskDispatched on its channel; while it processes a task it calls
\* begin_task for no other one, and the notifications that arrive meanwhile
\* queue up behind the ones already there
C23_OneTaskAtATime ==
    [][\A w \in WorkerIds : OneAtATime(w)]_vars

\* a worker processes one task while the TaskDispatched of another task
\* waits on its channel
C23_Witness ==
    \E w \in WorkerIds :
        /\ wPc[w] = "run"
        /\ Len(wChan[w]) >= 1
        /\ Head(wChan[w]).id # wTask[w][1].id

RunFailureAbsorbed(w) ==
    /\ (wPc[w] = "run" /\ wPc'[w] # "run") =>
           LET id == wTask[w][1].id
               run_ok == wTask'[w][1].run_ok
           IN  /\ wPc'[w] = "notify"
               /\ wStatus'[w] = "idle"
               /\ tasks' = complete_task(tasks, id, run_ok, now)
               /\ (~run_ok /\ complete_task_where(tasks, id)) =>
                      tasks'[id].status = "failed"
    /\ (wPc[w] = "notify" /\ wPc'[w] # "notify") =>
           /\ wPc'[w] = "wait"
           /\ SupListening => Published(supChan, supChan', WorkerIdle(w))

\* C24: whatever the task body returns, the worker goes on: it calls
\* complete_task with the outcome (false for a failure, which makes a
\* running row failed), stores idle, publishes WorkerIdle and waits for the
\* next notification
C24_RunFailureAbsorbed ==
    [][\A w \in WorkerIds : RunFailureAbsorbed(w)]_vars

\* a worker whose earlier task failed is processing another task
C24_Witness ==
    \E w \in WorkerIds, t \in DOMAIN tasks :
        /\ tasks[t].status = "failed"
        /\ tasks[t].worker_id = Some(w)
        /\ wPc[w] = "run"
        /\ wTask[w][1].id # t

\* C28: a worker that takes a TaskDispatched whose task is no longer
\* dispatched (deleted in the meantime) does not terminate
C28_RaceLoserAbsorbed ==
    [][\A w \in WorkerIds :
           (/\ wPc[w] = "wait"
            /\ wChan[w] # << >>
            /\ wChan'[w] = Tail(wChan[w])
            /\ begin_task_result(tasks, Head(wChan[w]).id) = None)
           => wPc'[w] # "dead"]_vars

\* C25: once a heartbeat failed the watchdog has stopped for good: it
\* publishes no WorkerHeartbeat and updates no row any more; and the
\* worker's main loop ends with the fatal error
C25_WatchdogDeathStopsWorker ==
    /\ [][\A w \in WorkerIds :
              wd[w] = "died" =>
                  /\ wd'[w] \in {"died", "stopped"}
                  /\ Get(dbWorkers', w) = Get(dbWorkers, w)
                  /\ \A status \in WorkerStatus :
                         ~Published(supChan, supChan',
                                    WorkerHeartbeat(w, status))]_vars
    /\ \A w \in WorkerIds : (wd[w] = "died") ~> (wPc[w] = "dead")

\* a heartbeat failed; the worker, which had completed a task, ended on the
\* watchdog's signal
C25_Witness ==
    \E w \in WorkerIds, t \in DOMAIN tasks :
        /\ wd[w] = "died"
        /\ wPc[w] = "dead"
        /\ wStatus[w] = "idle"
        /\ nCompleted[t] = 1
        /\ tasks[t].worker_id = Some(w)

\* the queue holds the task and its deadline, if any, has elapsed
ReadyInQueue(t) ==
    \E i \in 1..Len(queue) :
        /\ queue[i].id = t
        /\ IF queue[i].at = None THEN TRUE ELSE queue[i].at[1] <= now

\* the worker runs, its watchdog too, and it has no task in hand or waiting
LiveAndFree(w) ==
    /\ wPc[w] = "wait"
    /\ wd[w] \in {"first", "ready", "sleeping"}
    /\ wChan[w] = << >>

\* no worker is left that could take a task
NoWorkerLeft ==
    \A w \in WorkerIds :
        wPc[w] \in {"off", "dead"} \/ wd[w] \in {"died", "stopped"}

\* C26: whenever the queue holds a task whose deadline has elapsed and a
\* live worker executes no task, the task is eventually dispatched (unless
\* it is deleted first, or every worker dies)
C26_ReadyTaskEventuallyDispatched ==
    \A t \in TaskIds :
        (ReadyInQueue(t) /\ \E w \in WorkerIds : LiveAndFree(w))
        ~> (Dispatches(t) # {} \/ t \in deleted \/ NoWorkerLeft)

\* C27: every task in the table is eventually begun by some worker (unless
\* it is deleted, or every worker dies)
C27_EveryTaskEventuallyBegun ==
    \A t \in TaskIds :
        Has(tasks, t) ~> (nBegun[t] >= 1 \/ t \in deleted \/ NoWorkerLeft)

\* how often the queue holds the task
Waiting(q, t) ==
    Cardinality({i \in 1..Len(q) : q[i].id = t})

\* the step puts the queue's head back without deadline, in place
Requeued(q, q2) ==
    /\ q # << >>
    /\ q2 = push(heap_pop(q), Head(q).id, None, now)

GcStep == maintDue /\ ~maintDue' /\ supPc = "loop" /\ supPc' = "loop"

\* the supervisor last observed a heartbeat of w less than HEARTBEAT_TIMEOUT ago
HeardInTime(w) ==
    /\ Has(workers, w)
    /\ now - workers[w] < HEARTBEAT_TIMEOUT

\* C30: a worker whose last observed heartbeat is less than HEARTBEAT_TIMEOUT
\* old is not touched by the maintenance gc: it stays in the roster with the
\* same last-heard time, and it is in the idle-set after the gc exactly if it
\* was before; and no step other than the gc removes a worker from the
\* roster, whatever heartbeats, WorkerIdle messages and dispatches come
\* between the ticks. HEARTBEAT_TIMEOUT exceeds HEARTBEAT_DURATION.
C30_HeardWorkerSurvivesGc ==
    /\ [][\A w \in WorkerIds :
            /\ (GcStep /\ HeardInTime(w)) =>
                   /\ Has(workers', w)
                   /\ workers'[w] = workers[w]
                   /\ (w \in idling_workers') = (w \in idling_workers)
            /\ (Has(workers, w) /\ ~Has(workers', w)) =>
                   GcStep /\ ~HeardInTime(w)]_vars
    /\ [](HEARTBEAT_TIMEOUT > HEARTBEAT_DURATION)

\* a gc has just run over a worker that idles and whose last observed
\* heartbeat is two seconds old, and the worker is still in both sets
C30_Witness ==
    /\ ~maintDue
    /\ supPc = "loop"
    /\ \E w \in WorkerIds :
          /\ Has(workers, w)
          /\ now - workers[w] = HEARTBEAT_TIMEOUT - 1
          /\ w \in idling_workers

\* C34: in every state of the supervisor the idle-set is a subset of the
\* roster: every worker in idling_workers has a last_heard_at entry in workers
C34_IdleSubsetOfRoster ==
    idling_workers \subseteq DOMAIN workers

\* C35: no task is ever interrupted: no statement writes that status; and
\* the maintenance gc leaves the tasks table as it is, so the tasks assigned
\* to a worker it removes stay dispatched or running
C35_NeverInterrupted ==
    /\ [](\A t \in DOMAIN tasks : tasks[t].status # "interrupted")
    /\ [][GcStep => tasks' = tasks]_vars

\* the gc has removed a worker, and a task assigned to that worker is still
\* dispatched or running
C35_Witness ==
    /\ ~maintDue
    /\ supPc = "loop"
    /\ \E w \in WorkerIds, t \in DOMAIN tasks :
          /\ ~Has(workers, w)
          /\ w \notin idling_workers
          /\ now >= HEARTBEAT_TIMEOUT
          /\ tasks[t].worker_id = Some(w)
          /\ tasks[t].status \in {"dispatched", "running"}

\* a notification appears on channel worker:{w}: it is TaskDispatched{t} for
\* a task whose row this very step turns from pending to dispatched with
\* worker_id = w, and no other channel gets anything
PublishedToRecorded(w) ==
    Len(wChan'[w]) > Len(wChan[w]) =>
        LET notif == wChan'[w][Len(wChan'[w])] IN
        /\ Published(wChan[w], wChan'[w], notif)
        /\ notif.ty = "task-dispatched"
        /\ Has(tasks, notif.id) /\ Has(tasks', notif.id)
        /\ tasks[notif.id].status = "pending"
        /\ tasks'[notif.id].status = "dispatched"
        /\ tasks'[notif.id].worker_id = Some(w)
        /\ \A v \in WorkerIds \ {w} : wChan'[v] = wChan[v]

\* worker w takes a task up: the notification comes off its own channel, the
\* other channels stay as they are, and the row it begins carries w before
\* and after
BegunByRecorded(w) ==
    (wPc[w] = "wait" /\ wPc'[w] = "run") =>
        LET id == wTask'[w][1].id IN
        /\ \E i \in 1..Len(wChan[w]) :
              /\ wChan[w][i] = TaskDispatched(id)
              /\ wChan'[w] = SubSeq(wChan[w], 1, i - 1)
                               \o SubSeq(wChan[w], i + 1, Len(wChan[w]))
        /\ \A v \in WorkerIds \ {w} : wChan'[v] = wChan[v]
        /\ nBegun'[id] = nBegun[id] + 1
        /\ tasks[id].worker_id = Some(w)
        /\ tasks'[id].worker_id = Some(w)

\* worker w completes its task: the row, if it is still there, carries w
\* before and after
CompletedByRecorded(w) ==
    (wPc[w] = "run" /\ wPc'[w] = "notify") =>
        LET id == wTask[w][1].id IN
        /\ nCompleted'[id] > nCompleted[id] => Has(tasks, id)
        /\ Has(tasks, id) =>
               /\ tasks[id].worker_id = Some(w)
               /\ tasks'[id].worker_id = Some(w)

\* C36: a task is begun and completed only by the worker recorded in its
\* worker_id: TaskDispatched{t} is published only on worker:{w} for the w
\* the same dispatch transaction writes into the row, a worker takes
\* notifications off its own channel only, and once a row has a worker_id no
\* step changes it (begin_task and complete_task leave it alone)
C36_OnlyTheRecordedWorker ==
    [][/\ \A w \in WorkerIds :
            /\ PublishedToRecorded(w)
            /\ BegunByRecorded(w)
            /\ CompletedByRecorded(w)
       /\ \A t \in DOMAIN tasks \cap DOMAIN tasks' :
            tasks[t].worker_id # None =>
                tasks'[t].worker_id = tasks[t].worker_id]_vars

\* the second worker has begun and completed a task dispatched to it, while
\* the first worker listens and has received nothing
C36_Witness ==
    \E t \in DOMAIN tasks :
        /\ tasks[t].worker_id = Some(2)
        /\ tasks[t].status \in {"succeeded", "failed"}
        /\ committed[<<t, 2>>] = 1
        /\ published[<<t, 2>>] = 1
        /\ published[<<t, 1>>] = 0
        /\ nBegun[t] = 1
        /\ nCompleted[t] = 1
        /\ wPc[1] = "wait"
        /\ wPc[2] \in {"notify", "wait"}
        /\ wChan[1] = << >>

\* the dispatch attempt open for worker w affected no row
FailedAttemptFor(w) ==
    /\ supPc = "tx"
    /\ ~tx[1].affected
    /\ tx[1].worker_id = w

\* C33: a worker chosen for a dispatch that affected no row is not lost: once
\* the attempt is rolled back it gets back into the idle-set, unless it has
\* stopped in the meantime
C33_FailedDispatchKeepsWorker ==
    \A w \in WorkerIds :
        FailedAttemptFor(w) ~>
            (w \in idling_workers \/ wPc[w] = "dead" \/ wd[w] = "died")

\* the supervisor takes a notification of the given kinds off its channel
Consumes(kinds) ==
    /\ supChan # << >>
    /\ Head(supChan).ty \in kinds
    /\ supChan' = Tail(supChan)

\* C32: the queue starts paused and stays paused while the supervisor starts
\* up; a paused queue yields nothing, so no dispatch is begun, committed or
\* published; only a handled WorkerHeartbeat or WorkerIdle makes the queue
\* active, and a handled TaskCreated leaves is_active as it is. Hence no task
\* is dispatched before one of the two was received: whenever a dispatch is
\* open or was committed, the roster holds a worker, unless HEARTBEAT_TIMEOUT
\* has passed since the start and the gc may have removed the workers heard
C32_PausedUntilWorkerHeard ==
    /\ [](supPc \in {"init", "listening"} => ~is_active)
    /\ []((supPc = "tx" \/ \E t \in TaskIds : Dispatches(t) # {})
              => (workers # Empty \/ now >= HEARTBEAT_TIMEOUT))
    /\ [][/\ ~is_active =>
               /\ supPc' # "tx"
               /\ committed' = committed
               /\ published' = published
               /\ is_active' =>
                      Consumes({"worker-heartbeat", "worker-idle"})
          /\ (supPc = "loop" /\ Consumes({"task-created"})) =>
               /\ is_active' = is_active
               /\ supPc' = "loop"]_vars

\* the supervisor has handled the TaskCreated of a task, the task is ready at
\* the head of the queue, a worker is up, and nothing is dispatched: no
\* heartbeat was received yet and the queue is still paused
C32_Witness ==
    /\ supPc = "loop"
    /\ ~is_active
    /\ workers = Empty
    /\ idling_workers = {}
    /\ \E w \in WorkerIds : wPc[w] = "wait"
    /\ \E t \in TaskIds :
          /\ t \notin atScan
          /\ nPushed[t] = 1
          /\ nAttempts[t] = 0
          /\ Has(tasks, t)
          /\ tasks[t].status = "pending"
          /\ queue # << >>
          /\ Head(queue) = [id |-> t, at |-> None]

\* worker w has stopped: its process and its watchdog have ended and none of
\* its heartbeats or WorkerIdle is still on the way to the supervisor
Stopped(w) ==
    /\ wPc[w] = "dead"
    /\ wd[w] \in {"died", "stopped"}
    /\ \A i \in 1..Len(supChan) :
          ~(/\ supChan[i].ty \in {"worker-heartbeat", "worker-idle"}
            /\ supChan[i].id = w)

\* the heartbeat timeout of a worker in the roster ends within the range of
\* the clock
TimeoutInRange(w) ==
    Has(workers, w) => workers[w] + HEARTBEAT_TIMEOUT <= MaxGcTime

\* the supervisor opens a dispatch for worker w: choose_idling returned it
DispatchTo(w) ==
    /\ supPc = "loop"
    /\ supPc' = "tx"
    /\ tx'[1].worker_id = w

\* C31: a stopped worker is eventually absent from the roster and from the
\* idle-set; the gc that runs HEARTBEAT_TIMEOUT or more after its last
\* observed heartbeat removes it from both; and once it is stopped and out of
\* the roster, choose_idling does not return it: no dispatch is opened for it
C31_StoppedWorkerCollected ==
    /\ \A w \in WorkerIds :
          (Stopped(w) /\ TimeoutInRange(w)) ~>
              (~Has(workers, w) /\ w \notin idling_workers)
    /\ [][\A w \in WorkerIds :
            /\ (GcStep /\ Has(workers, w)
                   /\ now - workers[w] >= HEARTBEAT_TIMEOUT) =>
                   (~Has(workers', w) /\ w \notin idling_workers')
            /\ (Stopped(w) /\ ~Has(workers, w)) => ~DispatchTo(w)]_vars

(***************************************************************************)
(* The roster under the calls of its gc test: three workers, and the times *)
(* 12:00:00, 12:00:06, 12:00:10 and 12:00:12 as seconds after 12:00:00.    *)
(***************************************************************************)
GcTestWorkerIds == {1, 2, 3}
GcTestTimes == {0, 6, 10, 12}

GcTestAdd ==
    \E id \in GcTestWorkerIds, status \in WorkerStatus, at \in GcTestTimes :
        /\ workers' = add_workers(workers, id, status, at)
        /\ idling_workers' = add_idling(workers, idling_workers, id, status)
        /\ ret' = [op |-> "add", id |-> id, status |-> status, at |-> at,
                   workers |-> workers]
        /\ RosterFrame

GcTestGc ==
    \E at \in GcTestTimes :
        /\ workers' = gc_workers(workers, at)
        /\ idling_workers' = gc_idling(workers, idling_workers, at)
        /\ ret' = [op |-> "gc", at |-> at, workers |-> workers]
        /\ RosterFrame

GcTestNext ==
    \/ GcTestAdd
    \/ GcTestGc

SpecRosterGc == Init /\ [][GcTestNext]_vars

\* C14: with w1 last heard at 12:00:06, w2 at 12:00:00 and w3 at 12:00:12,
\* gc(12:00:10) removes w2 only: the roster keys afterwards are {w1, w3}
C14_GcScenario ==
    (/\ ret.op = "gc"
     /\ ret.at = 10
     /\ ret.workers = (1 :> 6 @@ 2 :> 0 @@ 3 :> 12))
    => DOMAIN workers = {1, 3}

(***************************************************************************)
(* PendingTasks alone: push, pause, resume and poll called in any order    *)
(* while the clock advances; ret holds the last call, the queue it met and *)
(* how often each id was pushed and yielded so far.                        *)
(***************************************************************************)
QueueTimes == 0..MaxQueueTime

QueueFrame ==
    UNCHANGED <<dbVars, chanVars, http, supPc, tx, workers, idling_workers,
                maintDue, workerVars, histVars>>

Pushed == IF ret.op = "none" THEN ZeroPerTask ELSE ret.pushed
Yielded == IF ret.op = "none" THEN ZeroPerTask ELSE ret.yielded

InQueue(q, id) == Cardinality({i \in 1..Len(q) : q[i].id = id})

RECURSIVE SumTo(_, _)
SumTo(f, n) == IF n = 0 THEN 0 ELSE f[n] + SumTo(f, n - 1)

\* calls counted in f, over all ids
Total(f) == SumTo(f, NumTasks)

QueueTick ==
    /\ now < MaxQueueTime
    /\ now' = now + 1
    /\ UNCHANGED <<queue, is_active, ret>>
    /\ QueueFrame

QueuePush ==
    \E id \in TaskIds, scheduled_at \in {None} \cup {Some(t) : t \in QueueTimes} :
        /\ Total(Pushed) < MaxPushes
        /\ queue' = push(queue, id, scheduled_at, now)
        /\ ret' = [op |-> "push", id |-> id, scheduled_at |-> scheduled_at,
                   now |-> now, queue |-> queue, is_active |-> is_active,
                   pushed |-> Inc(Pushed, id), yielded |-> Yielded]
        /\ UNCHANGED <<now, is_active>>
        /\ QueueFrame

QueuePause ==
    /\ is_active' = pause(is_active)
    /\ ret' = [op |-> "pause", now |-> now, queue |-> queue,
               is_active |-> is_active,
               pushed |-> Pushed, yielded |-> Yielded]
    /\ UNCHANGED <<now, queue>>
    /\ QueueFrame

QueueResume ==
    /\ is_active' = TRUE
    /\ ret' = [op |-> "resume", now |-> now, queue |-> queue,
               is_active |-> is_active,
               pushed |-> Pushed, yielded |-> Yielded]
    /\ UNCHANGED <<now, queue>>
    /\ QueueFrame

QueuePoll ==
    /\ IF poll_ready(queue, is_active)
       THEN /\ queue' = heap_pop(queue)
            /\ ret' = [op |-> "poll", result |-> Some(Head(queue).id),
                       now |-> now, queue |-> queue, is_active |-> is_active,
                       pushed |-> Pushed,
                       yielded |-> Inc(Yielded, Head(queue).id)]
       ELSE /\ queue' = queue
            /\ ret' = [op |-> "poll", result |-> None,
                       now |-> now, queue |-> queue, is_active |-> is_active,
                       pushed |-> Pushed, yielded |-> Yielded]
    /\ UNCHANGED <<now, is_active>>
    /\ QueueFrame

QueueNext ==
    \/ QueueTick
    \/ QueuePush
    \/ QueuePause
    \/ QueueResume
    \/ QueuePoll

SpecQueue == Init /\ [][QueueNext]_vars

\* the entry is ready at the time given
ReadyAt(e, time) == e.at = None \/ e.at[1] <= time

\* q without its i-th entry
Without(q, i) == SubSeq(q, 1, i - 1) \o SubSeq(q, i + 1, Len(q))

\* C15: whatever was pushed, a poll that yields takes out of the queue an
\* entry whose deadline, if it has one, has elapsed; no entry left behind has
\* an earlier deadline, an entry without a deadline goes before every entry
\* with one, and among entries with the same deadline (or none) the largest
\* id is yielded
C15_YieldOrder ==
    (ret.op = "poll" /\ ret.result # None) =>
        \E i \in 1..Len(ret.queue) :
            LET y == ret.queue[i] IN
            /\ y.id = ret.result[1]
            /\ queue = Without(ret.queue, i)
            /\ ReadyAt(y, ret.now)
            /\ \A j \in 1..Len(ret.queue) :
                   LET e == ret.queue[j] IN
                   /\ y.at # None => (e.at # None /\ y.at[1] <= e.at[1])
                   /\ e.at = y.at => e.id <= y.id

\* a poll yielded the larger id of two entries without deadline while an
\* entry with an elapsed deadline waited behind them
C15_Witness ==
    /\ ret.op = "poll"
    /\ ret.result = Some(2)
    /\ Len(ret.queue) = 3
    /\ \E i, j, k \in 1..3 :
           /\ ret.queue[i] = [at |-> None, id |-> 2]
           /\ ret.queue[j] = [at |-> None, id |-> 1]
           /\ ret.queue[k].at # None
           /\ ret.queue[k].id = 2
           /\ ReadyAt(ret.queue[k], ret.now)

\* C16: a queue nobody resumed yet is paused; a poll of a paused queue
\* returns Pending and leaves the queue as it was, whatever the queue holds
\* and whatever the time; a poll of a resumed queue that holds a ready entry
\* yields
C16_PausedYieldsNothing ==
    /\ ret.op = "none" => ~is_active
    /\ (ret.op = "poll" /\ ~ret.is_active) =>
           (ret.result = None /\ queue = ret.queue)
    /\ (/\ ret.op = "poll"
        /\ ret.is_active
        /\ \E i \in 1..Len(ret.queue) : ReadyAt(ret.queue[i], ret.now))
       => ret.result # None

\* a paused queue holding an entry without deadline and an entry whose
\* deadline elapsed was polled after time had passed
C16_Witness ==
    /\ ret.op = "poll"
    /\ ~ret.is_active
    /\ ret.now > 0
    /\ \E i, j \in 1..Len(ret.queue) :
           /\ ret.queue[i].at = None
           /\ ret.queue[j].at # None
           /\ ReadyAt(ret.queue[j], ret.now)

\* the entry push(id, scheduled_at, now) adds
PushedEntry(at) == [at |-> at, id |-> ret.id]

\* C17 as stated: a push with scheduled_at <= now leaves the queue exactly
\* as the same push without scheduled_at would
C17_NonPositiveDelayLikeNone ==
    (/\ ret.op = "push"
     /\ ret.scheduled_at # None
     /\ ret.scheduled_at[1] <= ret.now)
    => queue = heap_push(ret.queue, PushedEntry(None))

\* C17: a push with scheduled_at < now adds an entry without deadline, as a
\* push without scheduled_at does; a push with scheduled_at = now adds an
\* entry whose deadline is the time of the push: it is ready at once but is
\* ordered behind every entry without deadline
C17_NonPositiveDelayReadyAtOnce ==
    (ret.op = "push" /\ ret.scheduled_at # None) =>
        /\ ret.scheduled_at[1] < ret.now =>
               queue = heap_push(ret.queue, PushedEntry(None))
        /\ ret.scheduled_at[1] = ret.now =>
               /\ queue = heap_push(ret.queue, PushedEntry(Some(ret.now)))
               /\ ReadyAt(PushedEntry(Some(ret.now)), ret.now)
               /\ \A i \in 1..Len(queue) :
                      queue[i].at = None =>
                          \E j \in (i + 1)..Len(queue) :
                              queue[j] = PushedEntry(Some(ret.now))

\* a push with zero delay and a larger id went behind an entry without
\* deadline, where a push without scheduled_at would have gone in front
C17_Witness ==
    /\ ret.op = "push"
    /\ ret.scheduled_at = Some(ret.now)
    /\ ret.id = 2
    /\ ret.queue = <<[at |-> None, id |-> 1]>>
    /\ queue = <<[at |-> None, id |-> 1], [at |-> Some(ret.now), id |-> 2]>>

\* C18: every id was pushed as often as it was yielded plus as often as it
\* waits in the queue; a poll that returns Pending leaves the queue as it
\* was, and a poll that yields removes one entry
C18_NothingLostNothingTwice ==
    /\ \A t \in TaskIds : Pushed[t] = Yielded[t] + InQueue(queue, t)
    /\ (ret.op = "poll" /\ ret.result = None) => queue = ret.queue
    /\ (ret.op = "poll" /\ ret.result # None) =>
           Len(queue) = Len(ret.queue) - 1

\* after MaxPushes pushes, polls that returned Pending in between, and
\* pauses, the last entry was yielded and the queue is empty
C18_Witness ==
    /\ ret.op = "poll"
    /\ ret.result # None
    /\ queue = << >>
    /\ Total(ret.pushed) = MaxPushes
    /\ \A t \in TaskIds : ret.yielded[t] = ret.pushed[t]

(***************************************************************************)
(* The workers table alone: create_worker and update_worker called in any  *)
(* order with any timestamps; ret holds the last call, the table it met,   *)
(* the ids create_worker was called for and the timestamp of the last call *)
(* on each id.                                                             *)
(***************************************************************************)
WorkerTimes == 0..MaxWorkerTime

WorkersFrame ==
    UNCHANGED <<now, tasks, chanVars, http, supVars, workerVars, histVars>>

Created == IF ret.op = "none" THEN {} ELSE ret.created
LastCall == IF ret.op = "none" THEN [w \in WorkerIds |-> None] ELSE ret.last

DbCreateWorker ==
    \E id \in WorkerIds, last_heard_at \in WorkerTimes :
        /\ dbWorkers' = create_worker(dbWorkers, id, last_heard_at)
        /\ ret' = [op |-> "create_worker", id |-> id, at |-> last_heard_at,
                   before |-> dbWorkers,
                   created |-> Created \cup {id},
                   last |-> [LastCall EXCEPT ![id] = Some(last_heard_at)]]
        /\ WorkersFrame

DbUpdateWorker ==
    \E id \in WorkerIds, last_heard_at \in WorkerTimes :
        /\ dbWorkers' = update_worker(dbWorkers, id, last_heard_at)
        /\ ret' = [op |-> "update_worker", id |-> id, at |-> last_heard_at,
                   before |-> dbWorkers,
                   created |-> Created,
                   last |-> [LastCall EXCEPT ![id] = Some(last_heard_at)]]
        /\ WorkersFrame

DbWorkersNext ==
    \/ DbCreateWorker
    \/ DbUpdateWorker

SpecDbWorkers == Init /\ [][DbWorkersNext]_vars

\* C21: once create_worker was called for an id, the row's last_heard_at is
\* the timestamp of the last create_worker or update_worker call on that
\* id; create_worker on an id that has a row sets the row's last_heard_at;
\* an id create_worker was never called for has no row, whatever
\* update_worker calls were made on it; no call touches another id's row
C21_LastHeardAtIsLastApplied ==
    /\ \A id \in WorkerIds :
           IF id \in Created
           THEN Get(dbWorkers, id) = LastCall[id]
           ELSE ~Has(dbWorkers, id)
    /\ ret.op \in {"create_worker", "update_worker"} =>
           \A id \in WorkerIds \ {ret.id} :
               Get(dbWorkers, id) = Get(ret.before, id)
    /\ (ret.op = "create_worker" /\ Has(ret.before, ret.id)) =>
           dbWorkers = Put(ret.before, ret.id, ret.at)
    /\ (ret.op = "update_worker" /\ ~Has(ret.before, ret.id)) =>
           dbWorkers = ret.before

\* create_worker met a row with a later timestamp and replaced it, while
\* the other id, only ever updated, has no row
C21_Witness ==
    /\ ret.op = "create_worker"
    /\ Has(ret.before, ret.id)
    /\ ret.before[ret.id] > ret.at
    /\ dbWorkers[ret.id] = ret.at
    /\ \E other \in WorkerIds \ {ret.id} :
           /\ ret.last[other] # None
           /\ ~Has(dbWorkers, other)

=============================================================================
